---- MODULE Spec2Model ----
(***************************************************************************)
(* A model of pianoroll_utils.py: the pitch-axis crop/pad transforms, the  *)
(* pianoroll-to-event quantizer and the unit segmentation pipeline.        *)
(*                                                                         *)
(* A numpy array is a record [shape, data]: shape is the tuple of axis     *)
(* lengths and data[i][j] is the value at the 0-based index (i, j).  Every *)
(* function of the source is an operator that returns a record             *)
(* [status, ...]: status "ok" with the returned values, or the name of the *)
(* exception that ends the call.                                           *)
(***************************************************************************)
EXTENDS Integers, Sequences, FiniteSets

VARIABLES pc, pianoroll, left_units, right_units, params, rand, result

vars == <<pc, pianoroll, left_units, right_units, params, rand, result>>

(***************************************************************************)
(* Arrays                                                                  *)
(***************************************************************************)
Max(a, b) == IF a >= b THEN a ELSE b
Min(a, b) == IF a <= b THEN a ELSE b

Idx2(T, P) == (0..(T - 1)) \X (0..(P - 1))

\* np.zeros((T, P)) for T, P >= 0
Zeros2(T, P) ==
    [shape |-> <<T, P>>, data |-> [i \in 0..(T - 1) |-> [j \in 0..(P - 1) |-> 0]]]

\* The placeholder of a variable that a call does not use.
NoArray == Zeros2(0, 0)
NoResult == [status |-> "none"]

\* A bound i of a Python slice a[i:] or a[:i] on an axis of length n.
SliceIdx(i, n) == IF i < 0 THEN Max(i + n, 0) ELSE Min(i, n)

\* a[:, lo:hi] on a 2-d array
SliceCols(a, lo, hi) ==
    LET n == a.shape[2]
        l == SliceIdx(lo, n)
        h == Max(SliceIdx(hi, n), l)
    IN  [shape |-> <<a.shape[1], h - l>>,
         data |-> [i \in 0..(a.shape[1] - 1) |->
                     [j \in 0..(h - l - 1) |-> a.data[i][j + l]]]]

\* a[:hi, :] on a 2-d array
SliceRows(a, hi) ==
    LET h == SliceIdx(hi, a.shape[1])
    IN  [shape |-> <<h, a.shape[2]>>,
         data |-> [i \in 0..(h - 1) |-> a.data[i]]]

\* np.hstack((a, b, c)) of 2-d arrays with the same number of rows
HStack3(a, b, c) ==
    LET T == b.shape[1]
        wa == a.shape[2]
        wb == b.shape[2]
        wc == c.shape[2]
    IN  [shape |-> <<T, wa + wb + wc>>,
         data |-> [i \in 0..(T - 1) |->
                     [j \in 0..(wa + wb + wc - 1) |->
                        IF j < wa THEN a.data[i][j]
                        ELSE IF j < wa + wb THEN b.data[i][j - wa]
                        ELSE c.data[i][j - wa - wb]]]]

(***************************************************************************)
(* crop_pianoroll and pad_pianoroll                                        *)
(***************************************************************************)
FULL_PITCHES == 128

crop_pianoroll(pr, min_pitch, max_pitch) ==
    IF pr.shape[2] # FULL_PITCHES THEN [status |-> "AssertionError"]
    ELSE LET output == SliceCols(pr, min_pitch, max_pitch + 1)
         IN  IF output.shape[2] # max_pitch - min_pitch + 1
             THEN [status |-> "AssertionError"]
             ELSE [status |-> "ok", output |-> output]

pad_pianoroll(pr, min_pitch, max_pitch) ==
    IF pr.shape[2] # max_pitch - min_pitch + 1 THEN [status |-> "AssertionError"]
    ELSE LET ticks == pr.shape[1]
         IN  \* np.zeros refuses a negative dimension
             IF min_pitch - 1 < 0 \/ FULL_PITCHES - max_pitch < 0
             THEN [status |-> "ValueError"]
             ELSE LET front == Zeros2(ticks, min_pitch - 1)
                      back == Zeros2(ticks, FULL_PITCHES - max_pitch)
                      output == HStack3(front, pr, back)
                  IN  IF output.shape[2] # FULL_PITCHES
                      THEN [status |-> "AssertionError"]
                      ELSE [status |-> "ok", output |-> output]

\* crop_pianoroll, then pad_pianoroll of its output with the same bounds
crop_then_pad(pr, min_pitch, max_pitch) ==
    LET c == crop_pianoroll(pr, min_pitch, max_pitch)
    IN  IF c.status # "ok" THEN c ELSE pad_pianoroll(c.output, min_pitch, max_pitch)

(***************************************************************************)
(* The calls of crop_pianoroll followed by pad_pianoroll                   *)
(***************************************************************************)
CropMaxTicks == 1
\* The pitch columns that may sound, and the pitch bounds tried.
CropProbePitches == {0, 1, 2, 126, 127}

CropPianorolls ==
    UNION {
      { [shape |-> <<T, FULL_PITCHES>>,
         data |-> [i \in 0..(T - 1) |->
                     [j \in 0..(FULL_PITCHES - 1) |->
                        IF j \in CropProbePitches THEN f[i][j] ELSE 0]]] :
        f \in [0..(T - 1) -> [CropProbePitches -> {0, 1}]] } :
      T \in 0..CropMaxTicks }

InitCropPad ==
    /\ pc = "call"
    /\ pianoroll \in CropPianorolls
    /\ \E lo \in CropProbePitches, hi \in CropProbePitches :
          /\ lo <= hi
          /\ params = [min_pitch |-> lo, max_pitch |-> hi]
    /\ left_units = NoArray
    /\ right_units = NoArray
    /\ rand = <<>>
    /\ result = NoResult

CropPad ==
    /\ pc = "call"
    /\ result' = crop_then_pad(pianoroll, params.min_pitch, params.max_pitch)
    /\ pc' = "done"
    /\ UNCHANGED <<pianoroll, left_units, right_units, params, rand>>

NextCropPad == CropPad

SpecCropPad == InitCropPad /\ [][NextCropPad]_vars

\* C7: crop_pianoroll followed by pad_pianoroll with the same bounds returns a
\* 128-pitch matrix that equals the pianoroll on columns min_pitch..max_pitch
\* and is zero on every other column.
C7_CropPadRestores ==
    pc = "done" =>
        /\ result.status = "ok"
        /\ result.output.shape = <<pianoroll.shape[1], FULL_PITCHES>>
        /\ \A ij \in Idx2(pianoroll.shape[1], FULL_PITCHES) :
              result.output.data[ij[1]][ij[2]] =
                 IF ij[2] >= params.min_pitch /\ ij[2] <= params.max_pitch
                 THEN pianoroll.data[ij[1]][ij[2]] ELSE 0

(***************************************************************************)
(* pianoroll_2_events                                                      *)
(***************************************************************************)
\* The largest data byte of a MIDI message: mido.Message raises ValueError
\* for a note or a velocity outside 0..MIDI_MAX.
MIDI_MAX == 127

RECURSIVE SortedSeq(_)
\* The elements of a finite set of integers in increasing order (np.nonzero
\* lists the indices in increasing order).
SortedSeq(S) ==
    IF S = {} THEN <<>>
    ELSE LET m == CHOOSE x \in S : \A y \in S : x <= y
         IN  <<m>> \o SortedSeq(S \ {m})

RECURSIVE SumRows(_, _, _, _)
\* The sum of a.data[t, p] over the ticks lo <= t < hi
SumRows(a, p, lo, hi) ==
    IF lo >= hi THEN 0 ELSE a.data[lo][p] + SumRows(a, p, lo + 1, hi)

\* int(x / n) for n > 0: Python's int() truncates towards zero
TruncDiv(x, n) == IF x >= 0 THEN x \div n ELSE -((-x) \div n)

\* pianoroll.T
Transpose(a) ==
    [shape |-> <<a.shape[2], a.shape[1]>>,
     data |-> [i \in 0..(a.shape[2] - 1) |-> [j \in 0..(a.shape[1] - 1) |-> a.data[j][i]]]]

\* clipped.astype(bool) as 0/1
Binarized(clipped, t, p) == IF clipped.data[t][p] # 0 THEN 1 ELSE 0

\* Padded with np.pad's mode 'edge' in place of 'constant': the rows added
\* repeat the first and the last row of binarized.
PaddedEdge(clipped, i, p) ==
    IF clipped.shape[1] = 0 THEN 0
    ELSE IF i = 0 THEN Binarized(clipped, 0, p)
    ELSE IF i = clipped.shape[1] + 1 THEN Binarized(clipped, clipped.shape[1] - 1, p)
    ELSE Binarized(clipped, i - 1, p)

\* np.pad(binarized, ((1, 1), (0, 0)), 'constant'): row i of the padded
\* array is row i - 1 of binarized, and rows 0 and num_ticks + 1 are zero.
Padded(clipped, i, p) ==
    IF i = 0 \/ i = clipped.shape[1] + 1 THEN 0 ELSE Binarized(clipped, i - 1, p)

\* np.diff(padded, axis=0), rows 0..num_ticks
Diff(clipped, i, p) == Padded(clipped, i + 1, p) - Padded(clipped, i, p)

\* mido.Message('note_on', note=, velocity=, time=0)
Message(note, velocity) ==
    IF note \notin 0..MIDI_MAX \/ velocity \notin 0..MIDI_MAX
    THEN [status |-> "ValueError"]
    ELSE [status |-> "ok",
          msg |-> [type |-> "note_on", note |-> note, velocity |-> velocity, time |-> 0]]

\* Velocity with the slice clipped[note_on:note_off + 1, p], which takes in
\* the tick of the note-off.
VelocityInclusive(clipped, p, note_on, note_off) ==
    LET lo == SliceIdx(note_on, clipped.shape[1])
        hi == Max(SliceIdx(note_off + 1, clipped.shape[1]), lo)
    IN  TruncDiv(SumRows(clipped, p, lo, hi), hi - lo)

\* np.mean(clipped[note_on:note_off, p]), then int()
Velocity(clipped, p, note_on, note_off) ==
    LET lo == SliceIdx(note_on, clipped.shape[1])
        hi == Max(SliceIdx(note_off, clipped.shape[1]), lo)
    IN  TruncDiv(SumRows(clipped, p, lo, hi), hi - lo)

RECURSIVE NoteLoop(_, _, _, _, _, _, _)
\* The inner loop of pianoroll_2_events from position idx (1-based here) of
\* note_ons: the events lists after it, or the exception that ends it.
NoteLoop(clipped, p, pitch, note_ons, note_offs, idx, events) ==
    IF idx > Len(note_ons) THEN [status |-> "ok", events |-> events]
    ELSE IF idx > Len(note_offs) THEN [status |-> "IndexError"]
    ELSE LET note_on == note_ons[idx]
             note_off == note_offs[idx]
             num_ticks == clipped.shape[1]
             on_msg == Message(pitch, Velocity(clipped, p, note_on, note_off))
             off_msg == Message(pitch, 0)
         IN  \* the mean of an empty slice is nan, which int() refuses
             IF SliceIdx(note_off, num_ticks) <= SliceIdx(note_on, num_ticks)
             THEN [status |-> "ValueError"]
             ELSE IF on_msg.status # "ok" THEN on_msg
             ELSE IF note_on >= num_ticks THEN [status |-> "IndexError"]
             ELSE LET ev1 == [events EXCEPT ![note_on] = Append(@, on_msg.msg)]
                  IN  IF note_off < num_ticks
                      THEN IF off_msg.status # "ok" THEN off_msg
                           ELSE NoteLoop(clipped, p, pitch, note_ons, note_offs, idx + 1,
                                         [ev1 EXCEPT ![note_off] = Append(@, off_msg.msg)])
                      ELSE NoteLoop(clipped, p, pitch, note_ons, note_offs, idx + 1, ev1)

\* The column of diff the loop reads for pitch-axis index p
DiffColumn(min_pitch, p) == min_pitch + p

\* One iteration of the outer loop of pianoroll_2_events, for pitch-axis
\* index p, on empty events lists: the events it appends to each tick's
\* list, or the exception that ends it.
PitchIteration(clipped, min_pitch, p) ==
    LET num_ticks == clipped.shape[1]
        num_pitches == clipped.shape[2]
        pitch == min_pitch + p
        col == DiffColumn(min_pitch, p)
    IN  \* diff[:, col] on an axis of num_pitches columns
        IF col >= num_pitches \/ col < -num_pitches THEN [status |-> "IndexError"]
        ELSE LET c == IF col < 0 THEN col + num_pitches ELSE col
                 note_ons == SortedSeq({i \in 0..num_ticks : Diff(clipped, i, c) > 0})
                 note_offs == SortedSeq({i \in 0..num_ticks : Diff(clipped, i, c) < 0})
             IN  NoteLoop(clipped, p, pitch, note_ons, note_offs, 1,
                          [t \in 0..(num_ticks - 1) |-> <<>>])

RECURSIVE ConcatAt(_, _, _)
\* The lists per[p].events[t] of the pitch-axis indices p of ps, in order,
\* appended to one another
ConcatAt(per, ps, t) ==
    IF ps = <<>> THEN <<>>
    ELSE per[Head(ps)].events[t] \o ConcatAt(per, Tail(ps), t)

\* The outer loop of pianoroll_2_events: the iterations run in increasing p,
\* each appending to the lists the earlier ones left, and the first exception
\* ends the call.
PitchLoop(clipped, min_pitch) ==
    LET num_ticks == clipped.shape[1]
        num_pitches == clipped.shape[2]
        per == [p \in 0..(num_pitches - 1) |-> PitchIteration(clipped, min_pitch, p)]
        failed == {p \in 0..(num_pitches - 1) : per[p].status # "ok"}
    IN  IF failed # {}
        THEN [status |-> per[CHOOSE p \in failed : \A q \in failed : p <= q].status]
        ELSE [status |-> "ok",
              events |-> [t \in 0..(num_ticks - 1) |->
                            ConcatAt(per,
                                     SortedSeq({p \in 0..(num_pitches - 1) :
                                                  per[p].events[t] # <<>>}),
                                     t)]]

pianoroll_2_events(pr, min_pitch, max_pitch) ==
    IF pr.shape[1] # max_pitch - min_pitch + 1 THEN [status |-> "AssertionError"]
    ELSE LET \* the values are integers, which astype(int) leaves as they are
             clipped == Transpose(pr)
         IN  PitchLoop(clipped, min_pitch)

(***************************************************************************)
(* The calls of pianoroll_2_events                                         *)
(***************************************************************************)
EvMaxTicks == 3
\* The values of a channel of a full-range pianoroll: silence, the largest
\* MIDI velocity and the first value above it, and of a second channel.
EvFullValues == {0, MIDI_MAX, MIDI_MAX + 1}
EvSoftValues == {0, 1}
\* The values of a one-channel pianoroll: also small velocities whose mean
\* over a run is not an integer.
EvLoudValues == {0, 1, 2, MIDI_MAX, MIDI_MAX + 1}
\* The two channels of a full-range pianoroll that may sound.
EvChannels == [loud |-> 0, soft |-> MIDI_MAX]
EvLoudPitch == EvChannels.loud
EvSoftPitch == EvChannels.soft

\* The full-range pianoroll of shape (128, T) whose loud channel is f, whose
\* soft channel is g and whose other channels are silent
EvFullPianoroll(T, f, g) ==
    [shape |-> <<FULL_PITCHES, T>>,
     data |-> [p \in 0..(FULL_PITCHES - 1) |->
                 IF p = EvLoudPitch THEN f
                 ELSE IF p = EvSoftPitch THEN g ELSE [t \in 0..(T - 1) |-> 0]]]

\* The scenario of the specification: one channel, pitch 60, 8 ticks.
ScenarioValues == <<0, 0, 5, 5, 5, 0, 0, 0>>
ScenarioPitchMajor ==
    [shape |-> <<1, 8>>, data |-> [p \in 0..0 |-> [t \in 0..7 |-> ScenarioValues[t + 1]]]]
ScenarioTickMajor ==
    [shape |-> <<8, 1>>, data |-> [t \in 0..7 |-> [p \in 0..0 |-> ScenarioValues[t + 1]]]]

EvRange(lo, hi) == [min_pitch |-> lo, max_pitch |-> hi]

InitEvents ==
    /\ pc = "call"
    /\ \E T \in 0..EvMaxTicks :
          \/ /\ params = EvRange(0, MIDI_MAX)
             /\ \E f \in [0..(T - 1) -> EvFullValues], g \in [0..(T - 1) -> EvSoftValues] :
                   pianoroll = EvFullPianoroll(T, f, g)
          \/ /\ params \in {EvRange(0, 0), EvRange(60, 60)}
             /\ \E f \in [0..0 -> [0..(T - 1) -> EvLoudValues]] :
                   pianoroll = [shape |-> <<1, T>>, data |-> f]
          \/ /\ params \in {EvRange(0, 1), EvRange(1, 2), EvRange(MIDI_MAX - 1, MIDI_MAX),
                            EvRange(0, MIDI_MAX)}
             /\ \E f \in [0..1 -> [0..(T - 1) -> EvSoftValues]] :
                   pianoroll = [shape |-> <<2, T>>, data |-> f]
          \/ /\ T = 0
             /\ params = EvRange(60, 60)
             /\ pianoroll \in {ScenarioPitchMajor, ScenarioTickMajor}
    /\ left_units = NoArray
    /\ right_units = NoArray
    /\ rand = <<>>
    /\ result = NoResult

Pianoroll2Events ==
    /\ pc = "call"
    /\ result' = pianoroll_2_events(pianoroll, params.min_pitch, params.max_pitch)
    /\ pc' = "done"
    /\ UNCHANGED <<pianoroll, left_units, right_units, params, rand>>

NextEvents == Pianoroll2Events

SpecEvents == InitEvents /\ [][NextEvents]_vars

(***************************************************************************)
(* The runs of a pianoroll of shape (num_pitches, num_ticks), stated on    *)
(* the argument itself.                                                    *)
(***************************************************************************)
EvNumPitches == pianoroll.shape[1]
EvNumTicks == pianoroll.shape[2]
EvOn(p, t) == pianoroll.data[p][t] # 0

\* [a, b) is a maximal run of nonzero ticks of channel p
IsRun(p, a, b) ==
    /\ 0 <= a /\ a < b /\ b <= EvNumTicks
    /\ \A t \in a..(b - 1) : EvOn(p, t)
    /\ a = 0 \/ ~EvOn(p, a - 1)
    /\ b = EvNumTicks \/ ~EvOn(p, b)

RunStartsAt(p, a) == \E b \in 1..EvNumTicks : IsRun(p, a, b)
RunEndsAt(p, b) == \E a \in 0..(EvNumTicks - 1) : IsRun(p, a, b)

RECURSIVE RunSum(_, _, _)
RunSum(p, a, b) == IF a >= b THEN 0 ELSE pianoroll.data[p][a] + RunSum(p, a + 1, b)

ValuesWithin(lo, hi) ==
    \A i \in DOMAIN pianoroll.data : \A j \in DOMAIN pianoroll.data[i] :
       pianoroll.data[i][j] >= lo /\ pianoroll.data[i][j] <= hi

DefaultRangeCall ==
    /\ pc = "done"
    /\ params = EvRange(0, MIDI_MAX)
    /\ EvNumPitches = FULL_PITCHES

\* The numbers of note-start and of end-of-note events of pitch n in bucket t
NoteStarts(t, n) ==
    Cardinality({i \in 1..Len(result.events[t]) :
                   result.events[t][i].note = n /\ result.events[t][i].velocity > 0})
NoteEnds(t, n) ==
    Cardinality({i \in 1..Len(result.events[t]) :
                   result.events[t][i].note = n /\ result.events[t][i].velocity = 0})

\* The result holds one bucket per tick, one note start per run at the run's
\* first tick, one end-of-note event per run that ends before the last tick,
\* and nothing else.
EventsAreTheRuns ==
    /\ result.status = "ok"
    /\ DOMAIN result.events = 0..(EvNumTicks - 1)
    /\ \A t \in 0..(EvNumTicks - 1) :
          /\ \A i \in 1..Len(result.events[t]) :
                /\ result.events[t][i].type = "note_on"
                /\ result.events[t][i].note \in 0..MIDI_MAX
          /\ \A p \in 0..MIDI_MAX :
                /\ NoteStarts(t, p) = IF RunStartsAt(p, t) THEN 1 ELSE 0
                /\ NoteEnds(t, p) = IF RunEndsAt(p, t) THEN 1 ELSE 0

\* C1 as stated: with the default range and non-negative integer values, the
\* events are exactly one note start per maximal run [a, b) in bucket a and,
\* iff b < num_ticks, one end-of-note event of velocity 0 in bucket b, in
\* exactly num_ticks buckets.
C1_AnyNonNegativeValues ==
    (DefaultRangeCall /\ \A i \in DOMAIN pianoroll.data :
                            \A j \in DOMAIN pianoroll.data[i] : pianoroll.data[i][j] >= 0)
        => EventsAreTheRuns

\* C1 amended: the same for values in 0..127, the velocities a MIDI message
\* can carry.
C1_EventsAreTheRuns ==
    (DefaultRangeCall /\ ValuesWithin(0, MIDI_MAX)) => EventsAreTheRuns

\* A full-range call has returned for a pianoroll with a run that ends before
\* the last tick and a run that is still on at the last tick.
C1_Witness ==
    /\ DefaultRangeCall /\ ValuesWithin(0, MIDI_MAX)
    /\ result.status = "ok"
    /\ \E p \in {EvLoudPitch, EvSoftPitch} :
          /\ \E a \in 0..EvNumTicks, b \in 0..EvNumTicks :
                IsRun(p, a, b) /\ b < EvNumTicks /\ NoteEnds(b, p) = 1
          /\ \E a \in 0..EvNumTicks :
                IsRun(p, a, EvNumTicks) /\ a > 0 /\ NoteStarts(a, p) = 1

\* The events of pitch-axis index p are those of the runs of index p,
\* labelled with pitch min_pitch + p.
EventsOfCroppedRuns ==
    /\ result.status = "ok"
    /\ DOMAIN result.events = 0..(EvNumTicks - 1)
    /\ \A t \in 0..(EvNumTicks - 1) :
          /\ \A i \in 1..Len(result.events[t]) :
                result.events[t][i].note - params.min_pitch \in 0..(EvNumPitches - 1)
          /\ \A p \in 0..(EvNumPitches - 1) :
                /\ NoteStarts(t, params.min_pitch + p) = IF RunStartsAt(p, t) THEN 1 ELSE 0
                /\ NoteEnds(t, params.min_pitch + p) = IF RunEndsAt(p, t) THEN 1 ELSE 0

\* The events of the scenario: note-on (60, velocity 5) in bucket 2, note-off
\* (60, velocity 0) in bucket 5, every other bucket empty.
ScenarioEvents ==
    [t \in 0..7 |->
       IF t = 2 THEN <<[type |-> "note_on", note |-> 60, velocity |-> 5, time |-> 0]>>
       ELSE IF t = 5 THEN <<[type |-> "note_on", note |-> 60, velocity |-> 0, time |-> 0]>>
       ELSE <<>>]

\* C2: with a cropped range 0 < min_pitch <= max_pitch <= 127 and a pianoroll
\* whose pitch axis has max_pitch - min_pitch + 1 channels, the call completes
\* without error and the events of index p are those of the runs of index p
\* labelled min_pitch + p; the scenario on pitch 60 yields its two events.
C2_CroppedRange ==
    /\ (/\ pc = "done"
        /\ 0 < params.min_pitch /\ params.min_pitch <= params.max_pitch
        /\ params.max_pitch <= MIDI_MAX
        /\ EvNumPitches = params.max_pitch - params.min_pitch + 1
        /\ ValuesWithin(0, MIDI_MAX))
          => EventsOfCroppedRuns
    /\ (pc = "done" /\ params = EvRange(60, 60) /\ pianoroll = ScenarioPitchMajor)
          => (result.status = "ok" /\ result.events = ScenarioEvents)

\* C10: for values in 0..127, every event of a returned result is either the
\* note-on of a run [a, b) of its channel, in bucket a, with velocity
\* floor(sum of the run's values / (b - a)), which lies in 1..127, or an
\* end-of-note event of velocity 0; every run has its note-on.
C10_Velocity ==
    (pc = "done" /\ ValuesWithin(0, MIDI_MAX) /\ result.status = "ok") =>
        /\ \A t \in 0..(EvNumTicks - 1) : \A i \in 1..Len(result.events[t]) :
              LET m == result.events[t][i]
                  p == m.note - params.min_pitch
              IN  /\ m.velocity \in 0..MIDI_MAX
                  /\ m.velocity # 0 =>
                        \E b \in 1..EvNumTicks :
                           /\ IsRun(p, t, b)
                           /\ m.velocity * (b - t) <= RunSum(p, t, b)
                           /\ RunSum(p, t, b) < (m.velocity + 1) * (b - t)
                  /\ m.velocity = 0 => RunEndsAt(p, t)
        /\ \A p \in 0..(EvNumPitches - 1) : \A a \in 0..(EvNumTicks - 1) :
              RunStartsAt(p, a) =>
                 \E i \in 1..Len(result.events[a]) :
                    /\ result.events[a][i].note = params.min_pitch + p
                    /\ result.events[a][i].velocity \in 1..MIDI_MAX

\* A call has returned a note-on whose velocity is the rounded-down mean of a
\* run of unequal values, and a note-on of the largest velocity.
C10_Witness ==
    /\ pc = "done" /\ ValuesWithin(0, MIDI_MAX) /\ result.status = "ok"
    /\ \E a \in 0..(EvNumTicks - 1), b \in 1..EvNumTicks :
          /\ IsRun(EvLoudPitch, a, b)
          /\ RunSum(EvLoudPitch, a, b) % (b - a) # 0
          /\ \E i \in 1..Len(result.events[a]) :
                /\ result.events[a][i].note = params.min_pitch + EvLoudPitch
                /\ result.events[a][i].velocity = RunSum(EvLoudPitch, a, b) \div (b - a)

(***************************************************************************)
(* chop_to_unit_multiple                                                   *)
(***************************************************************************)
\* A number of units one too large whenever a remainder is left
NumUnitsCeil(num_ticks, ticks_per_unit) ==
    (num_ticks + ticks_per_unit - 1) \div ticks_per_unit

\* int(num_ticks / ticks_per_unit) for ticks_per_unit > 0
NumUnits(num_ticks, ticks_per_unit) == TruncDiv(num_ticks, ticks_per_unit)

chop_to_unit_multiple(pr, ticks_per_unit) ==
    LET num_ticks == pr.shape[1]
        num_pitches == pr.shape[2]
    IN  IF ticks_per_unit = 0 THEN [status |-> "ZeroDivisionError"]
        ELSE LET M == NumUnits(num_ticks, ticks_per_unit)
                 pianoroll_truncated == SliceRows(pr, M * ticks_per_unit)
             IN  IF ~(M * ticks_per_unit <= num_ticks) THEN [status |-> "AssertionError"]
                 ELSE IF pianoroll_truncated.shape # <<M * ticks_per_unit, num_pitches>>
                 THEN [status |-> "AssertionError"]
                 ELSE [status |-> "ok", M |-> M, pianoroll_truncated |-> pianoroll_truncated]

(***************************************************************************)
(* The calls of chop_to_unit_multiple                                      *)
(***************************************************************************)
ChopMaxTicks == 4
ChopPitches == {1, 2}
ChopValues == {0, 1}

\* The scenario of the specification: 10 ticks, 4 ticks per unit.
ChopScenario ==
    [shape |-> <<10, 1>>, data |-> [t \in 0..9 |-> [p \in 0..0 |-> (t + 1) % 2]]]

InitChop ==
    /\ pc = "call"
    /\ \/ \E T \in 0..ChopMaxTicks, P \in ChopPitches :
            /\ \E f \in [0..(T - 1) -> [0..(P - 1) -> ChopValues]] :
                  pianoroll = [shape |-> <<T, P>>, data |-> f]
            /\ \E k \in 1..(ChopMaxTicks + 1) : params = [ticks_per_unit |-> k]
       \/ /\ pianoroll = ChopScenario
          /\ params = [ticks_per_unit |-> 4]
    /\ left_units = NoArray
    /\ right_units = NoArray
    /\ rand = <<>>
    /\ result = NoResult

ChopToUnitMultiple ==
    /\ pc = "call"
    /\ result' = chop_to_unit_multiple(pianoroll, params.ticks_per_unit)
    /\ pc' = "done"
    /\ UNCHANGED <<pianoroll, left_units, right_units, params, rand>>

NextChop == ChopToUnitMultiple

SpecChop == InitChop /\ [][NextChop]_vars

\* C6: chop_to_unit_multiple(P, k) for k >= 1 returns M = floor(num_ticks / k),
\* so that M*k <= num_ticks < (M+1)*k, and the first M*k ticks of P with the
\* pitch axis unchanged; with num_ticks < k it returns M = 0 and an empty
\* pianoroll; 10 ticks with k = 4 give M = 2 and 8 ticks.
C6_Chop ==
    (pc = "done" /\ params.ticks_per_unit >= 1) =>
        LET k == params.ticks_per_unit
            num_ticks == pianoroll.shape[1]
        IN  /\ result.status = "ok"
            /\ result.M >= 0
            /\ result.M * k <= num_ticks
            /\ num_ticks < (result.M + 1) * k
            /\ num_ticks < k => result.M = 0
            /\ result.pianoroll_truncated.shape = <<result.M * k, pianoroll.shape[2]>>
            /\ \A t \in 0..(result.M * k - 1) : \A p \in 0..(pianoroll.shape[2] - 1) :
                  result.pianoroll_truncated.data[t][p] = pianoroll.data[t][p]
            /\ DOMAIN result.pianoroll_truncated.data = 0..(result.M * k - 1)
            /\ (num_ticks = 10 /\ k = 4) =>
                  (result.M = 2 /\ result.pianoroll_truncated.shape[1] = 8)

\* The scenario has returned, and so has a call that discards a remainder.
C6_Witness ==
    /\ pc = "done"
    /\ pianoroll = ChopScenario
    /\ result.status = "ok"
    /\ result.M = 2
    /\ result.pianoroll_truncated.shape = <<8, 1>>

(***************************************************************************)
(* shuffle_left_right                                                      *)
(***************************************************************************)
\* dst[mask, ...] = src[mask, ...] on the first axis
MaskedAssign(dst, mask, src) ==
    [dst EXCEPT !.data = [u \in 0..(dst.shape[1] - 1) |->
                            IF mask[u] THEN src.data[u] ELSE dst.data[u]]]

\* shuffle_left_right without the two copies: input_units and comp_units are
\* left_units and right_units themselves, so the first assignment overwrites
\* the units of left_units that the second one reads.
shuffle_left_right_in_place(left, right, bool_array) ==
    LET input_units == MaskedAssign(left, bool_array, right)
        comp_units == MaskedAssign(right, bool_array, input_units)
    IN  [status |-> "ok", input_units |-> input_units, comp_units |-> comp_units,
         left_units |-> input_units, right_units |-> comp_units]

\* shuffle_left_right for arguments of equal shape and the random booleans
\* bool_array, one per unit.  The result also holds the argument arrays as
\* the call leaves them.
shuffle_left_right(left, right, bool_array) ==
    LET input_units0 == left
        comp_units0 == right
        input_units == MaskedAssign(input_units0, bool_array, right)
        comp_units == MaskedAssign(comp_units0, bool_array, left)
    IN  [status |-> "ok", input_units |-> input_units, comp_units |-> comp_units,
         left_units |-> left, right_units |-> right]

(***************************************************************************)
(* The calls of shuffle_left_right                                         *)
(***************************************************************************)
ShMaxUnits == 2
\* The shape (ticks_per_unit, num_pitches) of one unit
ShUnitShape == <<1, 2>>
ShValues == {0, 1}

ShUnits(M) ==
    [0..(M - 1) -> [0..(ShUnitShape[1] - 1) -> [0..(ShUnitShape[2] - 1) -> ShValues]]]

InitShuffle ==
    /\ pc = "call"
    /\ \E M \in 0..ShMaxUnits :
          \E l \in ShUnits(M), r \in ShUnits(M) :
             /\ left_units = [shape |-> <<M>> \o ShUnitShape, data |-> l]
             /\ right_units = [shape |-> <<M>> \o ShUnitShape, data |-> r]
    /\ pianoroll = NoArray
    /\ params = <<>>
    /\ rand = <<>>
    /\ result = NoResult

\* np.random.randint(0, 2, n, dtype=bool): any n booleans
RandomBools(n) == [0..(n - 1) -> BOOLEAN]

ShuffleLeftRight ==
    /\ pc = "call"
    /\ \E bool_array \in RandomBools(left_units.shape[1]) :
          /\ rand' = bool_array
          /\ result' = shuffle_left_right(left_units, right_units, bool_array)
    /\ left_units' = result'.left_units
    /\ right_units' = result'.right_units
    /\ pc' = "done"
    /\ UNCHANGED <<pianoroll, params>>

NextShuffle == ShuffleLeftRight

SpecShuffle == InitShuffle /\ [][NextShuffle]_vars

\* What a call of shuffle_left_right on left and right leaves: res is its
\* result, left_after and right_after are the argument arrays after it.
ShufflePost(left, right, res, left_after, right_after) ==
    /\ res.status = "ok"
    /\ res.input_units.shape = left.shape
    /\ res.comp_units.shape = right.shape
    /\ DOMAIN res.input_units.data = 0..(left.shape[1] - 1)
    /\ DOMAIN res.comp_units.data = 0..(left.shape[1] - 1)
    /\ \A i \in 0..(left.shape[1] - 1) :
          \/ res.input_units.data[i] = left.data[i] /\ res.comp_units.data[i] = right.data[i]
          \/ res.input_units.data[i] = right.data[i] /\ res.comp_units.data[i] = left.data[i]
    /\ left_after = left
    /\ right_after = right

\* C4: for equal-shape inputs and every outcome of the random booleans, at each
\* unit index i (input[i], comp[i]) is (left[i], right[i]) or (right[i],
\* left[i]); both outputs have as many units as the inputs, and the argument
\* arrays left_units and right_units are left unchanged.
C4_Shuffle ==
    [][pc = "call" =>
         ShufflePost(left_units, right_units, result', left_units', right_units')]_vars

\* A call has returned with one unit exchanged and another one kept, each of
\* them a unit whose two sides differ.
C4_Witness ==
    /\ pc = "done"
    /\ result.status = "ok"
    /\ \E i \in DOMAIN rand, j \in DOMAIN rand :
          /\ rand[i] /\ ~rand[j]
          /\ left_units.data[i] # right_units.data[i]
          /\ left_units.data[j] # right_units.data[j]
          /\ result.input_units.data[i] = right_units.data[i]
          /\ result.comp_units.data[i] = left_units.data[i]
          /\ result.input_units.data[j] = left_units.data[j]
          /\ result.comp_units.data[j] = right_units.data[j]

(***************************************************************************)
(* create_units                                                            *)
(***************************************************************************)
\* a[:, lo:hi] = 0 on a 2-d array
ZeroCols(a, lo, hi) ==
    LET n == a.shape[2]
        l == SliceIdx(lo, n)
        h == SliceIdx(hi, n)
    IN  [a EXCEPT !.data = [t \in 0..(a.shape[1] - 1) |->
                              [p \in 0..(n - 1) |->
                                 IF l <= p /\ p < h THEN 0 ELSE a.data[t][p]]]]

\* The split without the two copies: left_comp and right_comp are the
\* truncated pianoroll itself, which both assignments write to.
SplitAccompanimentInPlace(pr, partition_note) ==
    LET after == ZeroCols(ZeroCols(pr, partition_note, pr.shape[2]), 0, partition_note)
    IN  [left_comp |-> after, right_comp |-> after, pianoroll |-> after]

\* The split of the truncated pianoroll pr into left- and right-
\* accompaniments at column partition_note (already relative to min_pitch):
\* left_comp[:, partition_note:] = 0 and right_comp[:, :partition_note] = 0
\* on copies.  The result also holds pr as the split leaves it.
SplitAccompaniment(pr, partition_note) ==
    [left_comp |-> ZeroCols(pr, partition_note, pr.shape[2]),
     right_comp |-> ZeroCols(pr, 0, partition_note),
     pianoroll |-> pr]

\* a.reshape(M, ticks_per_unit, num_pitches) of a 2-d array a of
\* M * ticks_per_unit rows and num_pitches columns
Reshape(a, M, ticks_per_unit, num_pitches) ==
    [shape |-> <<M, ticks_per_unit, num_pitches>>,
     data |-> [u \in 0..(M - 1) |->
                 [t \in 0..(ticks_per_unit - 1) |-> a.data[u * ticks_per_unit + t]]]]

RECURSIVE SumSeq(_, _, _)
\* f[lo] + ... + f[hi - 1]
SumSeq(f, lo, hi) == IF lo >= hi THEN 0 ELSE f[lo] + SumSeq(f, lo + 1, hi)

\* The sum of unit u of a 3-d array
UnitSum(units, u) ==
    SumSeq([t \in 0..(units.shape[2] - 1) |->
              SumSeq(units.data[u][t], 0, units.shape[3])], 0, units.shape[2])

\* The comparison with >= in place of >
MeanAboveOrEqual(sum, count, threshold) == sum * threshold.den >= threshold.num * count

\* sum / count > threshold, for count > 0 and the threshold
\* threshold.num / threshold.den with threshold.den > 0
MeanAbove(sum, count, threshold) == sum * threshold.den > threshold.num * count

\* The filter of create_units: the units of input_units and of comp_units
\* whose input unit has a mean above the threshold, and their number.
FilterUnits(input_units, comp_units, filter_threshold) ==
    LET M == input_units.shape[1]
        count == input_units.shape[2] * input_units.shape[3]
        keep == [u \in 0..(M - 1) |->
                   MeanAbove(UnitSum(input_units, u), count, filter_threshold)]
    IN  IF M = 1
        THEN \* squeeze() turns the one mean into a 0-d array, and indexing
             \* with a 0-d boolean puts a new axis of length 1 (True) or 0
             \* (False) in front of the array's own axes
             LET n == IF keep[0] THEN 1 ELSE 0
             IN  [input_units |-> [shape |-> <<n>> \o input_units.shape,
                                   data |-> [i \in 0..(n - 1) |-> input_units.data]],
                  comp_units |-> [shape |-> <<n>> \o comp_units.shape,
                                  data |-> [i \in 0..(n - 1) |-> comp_units.data]],
                  M |-> n]
        ELSE LET kept == SortedSeq({u \in 0..(M - 1) : keep[u]})
                 n == Len(kept)
             IN  [input_units |-> [shape |-> <<n, input_units.shape[2], input_units.shape[3]>>,
                                   data |-> [j \in 0..(n - 1) |-> input_units.data[kept[j + 1]]]],
                  comp_units |-> [shape |-> <<n, comp_units.shape[2], comp_units.shape[3]>>,
                                  data |-> [j \in 0..(n - 1) |-> comp_units.data[kept[j + 1]]]],
                  M |-> n]

\* The caller's pianoroll after its first rows, which the truncated pianoroll
\* is a view of, were left as `view`
WriteBack(pr, view) ==
    [pr EXCEPT !.data = [t \in 0..(pr.shape[1] - 1) |->
                           IF t < view.shape[1] THEN view.data[t] ELSE pr.data[t]]]

\* create_units for ticks_per_unit >= 1 and the random booleans bool_array of
\* its call of shuffle_left_right.  The result also holds the caller's
\* pianoroll as the call leaves it.
create_units(pr, num_pitches, ticks_per_unit, partition_note, min_pitch, filter_threshold, bool_array) ==
    IF pr.shape[2] # num_pitches THEN [status |-> "AssertionError", pianoroll |-> pr]
    ELSE LET chopped == chop_to_unit_multiple(pr, ticks_per_unit)
         IN  IF chopped.status # "ok" THEN [status |-> chopped.status, pianoroll |-> pr]
             ELSE
             LET M == chopped.M
                 split == SplitAccompaniment(chopped.pianoroll_truncated,
                                             partition_note - min_pitch)
                 left_units0 == Reshape(split.left_comp, M, ticks_per_unit, num_pitches)
                 right_units0 == Reshape(split.right_comp, M, ticks_per_unit, num_pitches)
                 shuffled == shuffle_left_right(left_units0, right_units0, bool_array)
                 filtered == FilterUnits(shuffled.input_units, shuffled.comp_units,
                                         filter_threshold)
                 after == WriteBack(pr, split.pianoroll)
             IN  IF filtered.input_units.shape # <<filtered.M, ticks_per_unit, num_pitches>>
                 THEN [status |-> "AssertionError", pianoroll |-> after]
                 ELSE IF filtered.comp_units.shape # <<filtered.M, ticks_per_unit, num_pitches>>
                 THEN [status |-> "AssertionError", pianoroll |-> after]
                 ELSE [status |-> "ok", input_units |-> filtered.input_units,
                       comp_units |-> filtered.comp_units, pianoroll |-> after]

(***************************************************************************)
(* The calls of create_units                                               *)
(***************************************************************************)
UMaxTicks == 3
UPitches == {1, 2}
UValues == {0, 1}
UTicksPerUnit == {1, 2}
\* (min_pitch, partition_note): the partition relative to min_pitch runs
\* from -1 to 3
UPartitions == {<<0, 0>>, <<0, 1>>, <<0, 2>>, <<0, 3>>, <<1, 0>>, <<1, 2>>}
\* filter_threshold as a fraction: 0 and 1/2
UThresholds == {[num |-> 0, den |-> 1], [num |-> 1, den |-> 2]}

InitUnits ==
    /\ pc = "call"
    /\ \E T \in 0..UMaxTicks, P \in UPitches :
          /\ \E f \in [0..(T - 1) -> [0..(P - 1) -> UValues]] :
                pianoroll = [shape |-> <<T, P>>, data |-> f]
          /\ \E k \in UTicksPerUnit, part \in UPartitions, thr \in UThresholds,
                np \in {P, 2} :
                params = [num_pitches |-> np, ticks_per_unit |-> k,
                          partition_note |-> part[2], min_pitch |-> part[1],
                          filter_threshold |-> thr]
    /\ left_units = NoArray
    /\ right_units = NoArray
    /\ rand = <<>>
    /\ result = NoResult

\* The number of booleans shuffle_left_right draws in create_units: one per
\* unit, and none when the first assertion ends the call
UnitsOf(pr, num_pitches, ticks_per_unit) ==
    IF pr.shape[2] # num_pitches THEN 0 ELSE NumUnits(pr.shape[1], ticks_per_unit)

CreateUnits ==
    /\ pc = "call"
    /\ \E bool_array \in RandomBools(UnitsOf(pianoroll, params.num_pitches,
                                                params.ticks_per_unit)) :
          /\ rand' = bool_array
          /\ result' = create_units(pianoroll, params.num_pitches, params.ticks_per_unit,
                                    params.partition_note, params.min_pitch,
                                    params.filter_threshold, bool_array)
    /\ pianoroll' = result'.pianoroll
    /\ pc' = "done"
    /\ UNCHANGED <<left_units, right_units, params>>

NextUnits == CreateUnits

SpecUnits == InitUnits /\ [][NextUnits]_vars

(***************************************************************************)
(* The units of a call of create_units, stated on its arguments.           *)
(***************************************************************************)
UTicks == params.ticks_per_unit
UNumPitches == params.num_pitches
URelPartition == params.partition_note - params.min_pitch

\* The number of whole units of a pianoroll pr
WholeUnits(pr) == Cardinality({u \in 1..pr.shape[1] : u * UTicks <= pr.shape[1]})

\* The sum of the values of one unit (ticks_per_unit rows of num_pitches values)
RECURSIVE CellSum(_, _)
CellSum(unit, cells) ==
    IF cells = {} THEN 0
    ELSE LET c == CHOOSE x \in cells : TRUE
         IN  unit[c[1]][c[2]] + CellSum(unit, cells \ {c})

\* The mean of a unit is strictly greater than filter_threshold
UnitIsKept(unit) ==
    CellSum(unit, Idx2(UTicks, UNumPitches)) * params.filter_threshold.den
        > params.filter_threshold.num * UTicks * UNumPitches

\* The units after the random exchange rand, before the filter
ExchangedUnits(pr) ==
    LET chopped == chop_to_unit_multiple(pr, UTicks)
        split == SplitAccompaniment(chopped.pianoroll_truncated, URelPartition)
    IN  shuffle_left_right(Reshape(split.left_comp, chopped.M, UTicks, UNumPitches),
                           Reshape(split.right_comp, chopped.M, UTicks, UNumPitches),
                           rand)

\* C3: whenever create_units returns, unit i after the exchange is kept iff
\* the mean of input_units[i] is strictly greater than filter_threshold; the
\* same units of comp_units are kept, so both outputs have equal length, stay
\* paired index by index, and keep the original order.
C3_Filter ==
    (pc = "done" /\ result.status = "ok") =>
        LET pre == ExchangedUnits(pianoroll)
            K == {i \in 0..(pre.input_units.shape[1] - 1) :
                    UnitIsKept(pre.input_units.data[i])}
            n == Cardinality(K)
        IN  /\ result.input_units.shape[1] = n
            /\ result.comp_units.shape[1] = n
            /\ DOMAIN result.input_units.data = 0..(n - 1)
            /\ DOMAIN result.comp_units.data = 0..(n - 1)
            /\ \A i \in K :
                  LET j == Cardinality({x \in K : x < i})
                  IN  /\ result.input_units.data[j] = pre.input_units.data[i]
                      /\ result.comp_units.data[j] = pre.comp_units.data[i]

\* A call has returned after dropping a unit that comes before a kept one,
\* with a unit exchanged, for a threshold above 0.
C3_Witness ==
    /\ pc = "done" /\ result.status = "ok"
    /\ params.filter_threshold.num > 0
    /\ \E i \in DOMAIN rand : rand[i]
    /\ LET pre == ExchangedUnits(pianoroll)
       IN  \E i \in DOMAIN rand, j \in DOMAIN rand :
              /\ i < j
              /\ ~UnitIsKept(pre.input_units.data[i])
              /\ CellSum(pre.input_units.data[i], Idx2(UTicks, UNumPitches)) > 0
              /\ UnitIsKept(pre.input_units.data[j])
              /\ result.input_units.shape[1] = 1
              /\ result.input_units.data[0] = pre.input_units.data[j]

\* C5: for every pianoroll whose pitch axis has num_pitches columns and every
\* number M >= 0 of whole units, M = 0 and M = 1 included, create_units
\* completes without an assertion failure and returns input_units and
\* comp_units of shape (M_final, ticks_per_unit, num_pitches).
C5_Postcondition ==
    (pc = "done" /\ pianoroll.shape[2] = UNumPitches) =>
        /\ result.status = "ok"
        /\ result.input_units.shape = <<Len(result.input_units.data), UTicks, UNumPitches>>
        /\ result.comp_units.shape = result.input_units.shape

\* C8: if partition_note - min_pitch is outside [0, num_pitches], create_units
\* fails with a range error and returns no units.
C8_RangeError ==
    (/\ pc = "done"
     /\ pianoroll.shape[2] = UNumPitches
     /\ URelPartition \notin 0..UNumPitches)
        => result.status = "RangeError"

\* Unit u of pr with the columns outside lo..hi-1 zeroed
RegisterOfUnit(pr, u, lo, hi) ==
    [t \in 0..(UTicks - 1) |->
       [p \in 0..(UNumPitches - 1) |->
          IF lo <= p /\ p < hi THEN pr.data[u * UTicks + t][p] ELSE 0]]

\* What a call of create_units on pr leaves: res is its result and pr_after
\* the caller's pianoroll after it.
CreateUnitsPost(pr, res, pr_after) ==
    /\ pr_after = pr
    /\ (res.status = "ok" /\ URelPartition \in 0..UNumPitches) =>
          \A j \in 0..(res.input_units.shape[1] - 1) :
             LET inp == res.input_units.data[j]
                 comp == res.comp_units.data[j]
             IN  /\ \E u \in 0..(WholeUnits(pr) - 1) :
                       LET low == RegisterOfUnit(pr, u, 0, URelPartition)
                           high == RegisterOfUnit(pr, u, URelPartition, UNumPitches)
                       IN  \/ inp = low /\ comp = high
                           \/ inp = high /\ comp = low
                 /\ \A c \in Idx2(UTicks, UNumPitches) :
                       inp[c[1]][c[2]] = 0 \/ comp[c[1]][c[2]] = 0
                 /\ \E u \in 0..(WholeUnits(pr) - 1) :
                       \A c \in Idx2(UTicks, UNumPitches) :
                          inp[c[1]][c[2]] + comp[c[1]][c[2]] = pr.data[u * UTicks + c[1]][c[2]]

\* C9: for 0 <= partition_note - min_pitch <= num_pitches and every outcome of
\* the exchange, each returned pair comes from one unit of the truncated
\* pianoroll: one member is the unit with the columns >= the partition zeroed,
\* the other the unit with the columns below it zeroed, so they are never both
\* nonzero at one (tick, pitch) and their sum is the unit; the caller's
\* pianoroll is not modified.
C9_RegisterSplit ==
    [][pc = "call" => CreateUnitsPost(pianoroll, result', pianoroll')]_vars

\* A call has returned two pairs, one exchanged and one not, whose units sound
\* on both sides of a partition inside the pitch range.
C9_Witness ==
    /\ pc = "done" /\ result.status = "ok"
    /\ URelPartition = 1 /\ UNumPitches = 2
    /\ result.input_units.shape[1] = 2
    /\ \E i \in DOMAIN rand, j \in DOMAIN rand : rand[i] /\ ~rand[j]
    /\ \A j \in 0..1 :
          /\ CellSum(result.input_units.data[j], Idx2(UTicks, UNumPitches)) > 0
          /\ CellSum(result.comp_units.data[j], Idx2(UTicks, UNumPitches)) > 0

====
